---- MODULE Spec2Model ----
(***************************************************************************)
(* BMS selection tool: the sizing engine of src/app.py (web handlers) and  *)
(* src/selector.py (command line script).                                  *)
(*                                                                         *)
(*   find_optimal_combination     the mixed-integer sizing of one panel    *)
(*   get_accessories_recursively  the accessory expansion loop             *)
(*   get_panel_names / calculate_options / generate_reports                *)
(*                                the three web handlers of app.py         *)
(*                                                                         *)
(* Strings are modelled by their characters where the code looks inside    *)
(* them (isalnum filtering, replace, strip); numbers are integers: the     *)
(* float product d * (1 + s/100) followed by math.ceil agrees with the     *)
(* exact integer ceiling for every demand and spare percentage used here.  *)
(***************************************************************************)
EXTENDS Integers, Sequences, FiniteSets, TLC

VARIABLES fin, acc, PANELS_DF, uploaded, resp, inflight, cli

vars == <<fin, acc, PANELS_DF, uploaded, resp, inflight, cli>>

(***************************************************************************)
(* Bounds of the model.                                                    *)
(***************************************************************************)
\* largest raw demand of one point type of a panel
MaxPts == 2
\* largest spare percentage tried besides 0 and the default
MaxSpare == 50

\* src/app.py:20, src/selector.py:8
DEFAULT_SPARE_POINTS_PERCENTAGE == 20

Spares == {0, DEFAULT_SPARE_POINTS_PERCENTAGE, MaxSpare}

(***************************************************************************)
(* Small helpers.                                                          *)
(***************************************************************************)
Min(a, b) == IF a <= b THEN a ELSE b

Max(a, b) == IF a >= b THEN a ELSE b

RECURSIVE SumSeq(_)
SumSeq(s) == IF s = <<>> THEN 0 ELSE Head(s) + SumSeq(Tail(s))

Range(s) == {s[i] : i \in DOMAIN s}

\* math.ceil(x * spare_multiplier) with spare_multiplier = 1 + pct/100
CeilSpare(x, pct) == ((x * (100 + pct)) + 99) \div 100

(***************************************************************************)
(* Strings the code looks inside: the characters of every component name.  *)
(***************************************************************************)
Chars(name) ==
    CASE name = "C1"                -> <<"C", "1">>
      [] name = "C-1"               -> <<"C", "-", "1">>
      [] name = "C 1"               -> <<"C", " ", "1">>
      [] name = "C_1"               -> <<"C", "_", "1">>
      [] name = "CU"                -> <<"C", "U">>
      [] name = "CX"                -> <<"C", "X">>
      [] name = "M1"                -> <<"M", "1">>
      [] name = "M2"                -> <<"M", "2">>
      [] name = "M9"                -> <<"M", "9">>
      [] name = "AS-P"              -> <<"A", "S", "-", "P">>
      [] name = "AS-B-S"            -> <<"A", "S", "-", "B", "-", "S">>
      [] name = "AS-B-L"            -> <<"A", "S", "-", "B", "-", "L">>
      [] name = "P0"                -> <<"P", "0">>
      [] name = "P1"                -> <<"P", "1">>
      [] name = "P2"                -> <<"P", "2">>
      [] name = "P3"                -> <<"P", "3">>
      [] name = "P9"                -> <<"P", "9">>
      [] name = "No Solution Found" -> <<"N", "o", " ", "S", "o", "l", "u", "t", "i", "o", "n", " ", "F", "o", "u", "n", "d">>
      [] name = "No Valid Server Solution" -> <<"N", "o", " ", "V", "a", "l", "i", "d", " ", "S", "e", "r", "v", "e", "r", " ", "S", "o", "l", "u", "t", "i", "o", "n">>
      [] name = "Term"              -> <<"T", "e", "r", "m">>
      [] name = "Base"              -> <<"B", "a", "s", "e">>
      [] name = "Clip"              -> <<"C", "l", "i", "p">>
      [] name = "PSU"               -> <<"P", "S", "U">>
      [] name = "Cover"             -> <<"C", "o", "v", "e", "r">>
      [] name = "SUM"               -> <<"S", "U", "M">>
      [] name = "PanelName"         -> <<"P", "a", "n", "e", "l", "N", "a", "m", "e">>

\* ord of one character
ord(ch) ==
    CASE ch = " " -> 32 [] ch = "-" -> 45 [] ch = "0" -> 48 [] ch = "1" -> 49
      [] ch = "2" -> 50 [] ch = "3" -> 51 [] ch = "9" -> 57 [] ch = "A" -> 65
      [] ch = "B" -> 66 [] ch = "C" -> 67 [] ch = "F" -> 70 [] ch = "L" -> 76
      [] ch = "M" -> 77 [] ch = "N" -> 78 [] ch = "P" -> 80 [] ch = "S" -> 83
      [] ch = "T" -> 84 [] ch = "U" -> 85 [] ch = "V" -> 86 [] ch = "X" -> 88 [] ch = "_" -> 95
      [] ch = "a" -> 97 [] ch = "d" -> 100 [] ch = "e" -> 101 [] ch = "i" -> 105
      [] ch = "l" -> 108 [] ch = "m" -> 109 [] ch = "n" -> 110 [] ch = "o" -> 111
      [] ch = "p" -> 112 [] ch = "r" -> 114 [] ch = "s" -> 115 [] ch = "t" -> 116
      [] ch = "u" -> 117 [] ch = "v" -> 118

\* str.isalnum of one character
isalnum(ch) == ch \notin {"-", " ", "_", "/", "+"}

\* app.py: ''.join(e for e in name if e.isalnum())
safe_name(name) == SelectSeq(Chars(name), isalnum)

\* selector.py: name.replace(' ', '_')
replace_space(name) ==
    [i \in DOMAIN Chars(name) |-> IF Chars(name)[i] = " " THEN "_" ELSE Chars(name)[i]]

\* the label of a component's allocation constraints in each source file
ConstraintLabel(variant, name) ==
    IF variant = "app" THEN safe_name(name) ELSE replace_space(name)

(***************************************************************************)
(* Catalog rows (ComponentSpec) and panel demand rows.                     *)
(***************************************************************************)
Comp(name, pn, cost, di, do, ai, ao, ui, uo, uio) ==
    [Name |-> name, PartNumber |-> pn, Cost |-> cost, DI |-> di, DO |-> do,
     AI |-> ai, AO |-> ao, UI |-> ui, UO |-> uo, UIO |-> uio]

Demand(di, do, ai, ao) == [DI |-> di, DO |-> do, AI |-> ai, AO |-> ao]

Demands == [DI : 0..MaxPts, DO : 0..MaxPts, AI : 0..MaxPts, AO : 0..MaxPts]

(***************************************************************************)
(* find_optimal_combination (app.py:38-100, selector.py:10-92).            *)
(*                                                                         *)
(* The program handed to the solver: one integer Qty per component and     *)
(* eight continuous allocation variables per component.  The allocation    *)
(* variables of different components occur only added together in the four *)
(* requirement rows, and each component's capacity row bounds its own      *)
(* variables by capacity * Qty, so the rows below are written over the     *)
(* sums of the allocation variables across components.                     *)
(***************************************************************************)
\* required_di .. required_ao: spare applied, rounded up
Required(panel_requirements, spare_points_percentage) ==
    [DI |-> CeilSpare(panel_requirements.DI, spare_points_percentage),
     DO |-> CeilSpare(panel_requirements.DO, spare_points_percentage),
     AI |-> CeilSpare(panel_requirements.AI, spare_points_percentage),
     AO |-> CeilSpare(panel_requirements.AO, spare_points_percentage)]

\* lpSum of components_map[name][field] * Qty[name]
Provided(components_df, qty, field) ==
    SumSeq([i \in DOMAIN components_df |-> components_df[i][field] * qty[i]])

\* the objective Total_Component_Cost
TotalComponentCost(components_df, qty) == Provided(components_df, qty, "Cost")

\* lowBound=0 of every allocation variable
NonNegative(al) ==
    /\ al.UIO_as_DI >= 0 /\ al.UIO_as_AI >= 0 /\ al.UIO_as_DO >= 0 /\ al.UIO_as_AO >= 0
    /\ al.UI_as_Digital >= 0 /\ al.UI_as_Analog >= 0
    /\ al.UO_as_Digital >= 0 /\ al.UO_as_Analog >= 0

UIO_Allocation(components_df, qty, al) ==
    al.UIO_as_DI + al.UIO_as_AI + al.UIO_as_DO + al.UIO_as_AO
        <= Provided(components_df, qty, "UIO")

UI_Allocation(components_df, qty, al) ==
    al.UI_as_Digital + al.UI_as_Analog <= Provided(components_df, qty, "UI")

UO_Allocation(components_df, qty, al) ==
    al.UO_as_Digital + al.UO_as_Analog <= Provided(components_df, qty, "UO")

Digital_Input_Requirement(components_df, qty, al, required) ==
    Provided(components_df, qty, "DI") + al.UI_as_Digital + al.UIO_as_DI >= required.DI

Digital_Output_Requirement(components_df, qty, al, required) ==
    Provided(components_df, qty, "DO") + al.UO_as_Digital + al.UIO_as_DO >= required.DO

Analog_Input_Requirement(components_df, qty, al, required) ==
    Provided(components_df, qty, "AI") + al.UI_as_Analog + al.UIO_as_AI >= required.AI

Analog_Output_Requirement(components_df, qty, al, required) ==
    Provided(components_df, qty, "AO") + al.UO_as_Analog + al.UIO_as_AO >= required.AO

\* The allocations tried for one quantity vector.  A requirement row only
\* gains from a larger allocation, so all of the UI, UO and UIO capacity is
\* handed out, and no variable needs to exceed the requirement it serves.
Allocations(components_df, qty, required) ==
    LET uio == Provided(components_df, qty, "UIO")
        ui  == Provided(components_df, qty, "UI")
        uo  == Provided(components_df, qty, "UO")
    IN  {[UIO_as_DI |-> a, UIO_as_AI |-> b, UIO_as_DO |-> c,
          UIO_as_AO |-> uio - a - b - c,
          UI_as_Digital |-> d, UI_as_Analog |-> ui - d,
          UO_as_Digital |-> e, UO_as_Analog |-> uo - e] :
            a \in 0..Min(uio, required.DI), b \in 0..Min(uio, required.AI),
            c \in 0..Min(uio, required.DO),
            d \in 0..Min(ui, required.DI), e \in 0..Min(uo, required.DO)}

\* the rows of the program hold for qty with some allocation
IsFeasible(components_df, qty, required) ==
    \E al \in Allocations(components_df, qty, required) :
        /\ NonNegative(al)
        /\ UIO_Allocation(components_df, qty, al)
        /\ UI_Allocation(components_df, qty, al)
        /\ UO_Allocation(components_df, qty, al)
        /\ Digital_Input_Requirement(components_df, qty, al, required)
        /\ Digital_Output_Requirement(components_df, qty, al, required)
        /\ Analog_Input_Requirement(components_df, qty, al, required)
        /\ Analog_Output_Requirement(components_df, qty, al, required)

\* Qty is unbounded above in the program.  A cheapest feasible vector never
\* needs more units of one component than there are required points, so the
\* search is over that box.
QtyVectors(components_df, required) ==
    [DOMAIN components_df -> 0..(required.DI + required.DO + required.AI + required.AO)]

FeasibleQtys(components_df, required) ==
    {q \in QtyVectors(components_df, required) : IsFeasible(components_df, q, required)}

\* what a correct solver may report as the optimum (ties are the solver's)
OptimalQtys(components_df, required) ==
    LET F == FeasibleQtys(components_df, required)
    IN  {q \in F : \A p \in F :
            TotalComponentCost(components_df, q) <= TotalComponentCost(components_df, p)}

\* {name: int(var.varValue) for name, var in ... if var.varValue > 0}
Solution(components_df, qty) ==
    [n \in {components_df[i].Name : i \in {j \in DOMAIN components_df : qty[j] > 0}} |->
        qty[CHOOSE i \in DOMAIN components_df : components_df[i].Name = n]]

\* two components whose allocation rows get the same label: the second
\* "prob += row, label" is refused (overlapping constraint names)
LabelsOverlap(variant, components_df) ==
    \E i, j \in DOMAIN components_df :
        /\ i < j
        /\ ConstraintLabel(variant, components_df[i].Name)
              = ConstraintLabel(variant, components_df[j].Name)

\* the value (None, None)
NoneNone == [outcome |-> "none", total_cost |-> 0, solution |-> <<>>]

Raised(what) == [outcome |-> what, total_cost |-> 0, solution |-> <<>>]

\* What the solver run can do: "solved" (it reports Optimal or Infeasible as
\* the program is), "not_solved" (it ends with another status) or "crash"
\* (prob.solve raises).
SolverRuns == {"solved", "not_solved", "crash"}

\* Every result one call can give.  variant is "app" or "cli".
find_optimal_combination(variant, panel_requirements, components_df, spare, solver) ==
    LET required == Required(panel_requirements, spare)
        optimal  == OptimalQtys(components_df, required)
    IN  IF LabelsOverlap(variant, components_df) THEN {Raised("PulpError")}
        ELSE IF solver = "crash" THEN {Raised("PulpSolverError")}
        ELSE IF solver = "not_solved" \/ optimal = {} THEN {NoneNone}
        ELSE {[outcome |-> "ok",
               total_cost |-> TotalComponentCost(components_df, q),
               solution |-> Solution(components_df, q)] : q \in optimal}

(***************************************************************************)
(* Catalogs the sizing is exercised on.                                    *)
(***************************************************************************)
FindCatalogs ==
    << <<Comp("C1", "PC1", 100, 2, 2, 0, 0, 0, 0, 0)>>,
       <<Comp("CU", "PCU", 50, 0, 0, 0, 0, 0, 0, 4)>>,
       <<Comp("C1", "PC1", 100, 2, 2, 0, 0, 0, 0, 0),
         Comp("CX", "PCX", 70, 1, 0, 1, 0, 1, 1, 0)>>,
       <<Comp("C1", "PC1", 100, 2, 2, 0, 0, 0, 0, 0),
         Comp("C-1", "PC1B", 60, 0, 0, 1, 1, 0, 0, 0)>>,
       <<Comp("C 1", "PC1C", 100, 2, 2, 0, 0, 0, 0, 0),
         Comp("C_1", "PC1D", 60, 0, 0, 1, 1, 0, 0, 0)>> >>

(***************************************************************************)
(* One call of find_optimal_combination on drawn inputs.                   *)
(***************************************************************************)
InitFind ==
    /\ fin \in [pc : {"call"}, variant : {"app", "cli"}, req : Demands,
                df : DOMAIN FindCatalogs, spare : Spares, solver : SolverRuns,
                result : {NoneNone}]
    /\ acc = [pc |-> "off"]
    /\ PANELS_DF = 0
    /\ uploaded = <<>>
    /\ resp = <<>>
    /\ inflight = <<>>
    /\ cli = [pc |-> "off"]

FindCall ==
    /\ fin.pc = "call"
    /\ \E r \in find_optimal_combination(fin.variant, fin.req, FindCatalogs[fin.df],
                                         fin.spare, fin.solver) :
          fin' = [fin EXCEPT !.pc = IF r.outcome \in {"ok", "none"}
                                    THEN "returned" ELSE "raised",
                             !.result = r]
    /\ UNCHANGED <<acc, PANELS_DF, uploaded, resp, inflight, cli>>

NextFind == FindCall

SpecFind == InitFind /\ [][NextFind]_vars

(***************************************************************************)
(* C1.  The contract of find_optimal_combination, stated without the       *)
(* allocation variables: a quantity vector covers the demand when the      *)
(* points still missing after the direct points fit into the universal     *)
(* ones, UI taking input shortfall, UO output shortfall, UIO what is left. *)
(***************************************************************************)
Shortfall(components_df, qty, required, t) ==
    Max(0, required[t] - Provided(components_df, qty, t))

Covers(components_df, qty, required) ==
    Max(0, Shortfall(components_df, qty, required, "DI")
            + Shortfall(components_df, qty, required, "AI")
            - Provided(components_df, qty, "UI"))
    + Max(0, Shortfall(components_df, qty, required, "DO")
            + Shortfall(components_df, qty, required, "AO")
            - Provided(components_df, qty, "UO"))
        <= Provided(components_df, qty, "UIO")

CoveringVectors(components_df, required) ==
    {q \in QtyVectors(components_df, required) : Covers(components_df, q, required)}

\* the result of a finished call is the one the contract describes
ContractResult(components_df, required, result) ==
    LET C == CoveringVectors(components_df, required)
    IN  /\ result.outcome \in {"ok", "none"}
        /\ result.outcome = "ok" <=> C # {}
        /\ result.outcome = "ok" =>
             /\ \E q \in C : /\ Solution(components_df, q) = result.solution
                             /\ TotalComponentCost(components_df, q) = result.total_cost
             /\ \A q \in C : result.total_cost <= TotalComponentCost(components_df, q)

\* C1: for every demand, spare percentage and catalog, a call whose solver
\* run succeeded returns (never raises); it returns a cost and quantities
\* exactly when a covering quantity vector exists, the quantities cover the
\* demand, the cost is the least cost of a covering vector, and it returns
\* (None, None) otherwise.
C1_FindOptimalContract ==
    (fin.pc \in {"returned", "raised"} /\ fin.solver = "solved") =>
        /\ fin.pc = "returned"
        /\ ContractResult(FindCatalogs[fin.df], Required(fin.req, fin.spare), fin.result)

\* the same contract on the catalogs whose constraint labels are distinct
FindOptimalContractDistinctLabels ==
    (/\ fin.pc \in {"returned", "raised"} /\ fin.solver = "solved"
     /\ ~LabelsOverlap(fin.variant, FindCatalogs[fin.df])) =>
        /\ fin.pc = "returned"
        /\ ContractResult(FindCatalogs[fin.df], Required(fin.req, fin.spare), fin.result)

(***************************************************************************)
(* get_accessories_recursively (app.py:101-111, selector.py:94-111).       *)
(*                                                                         *)
(* A frame is a sequence of rows.  Parts rows carry Name, PartNumber,      *)
(* Quantity and Cost; a rule row carries ParentPartNumber, AccessoryName,  *)
(* AccessoryPartNumber and AccessoryCost.                                  *)
(***************************************************************************)
\* largest parts list handed to the expansion
MaxParents == 2

\* str.strip of a part number
strip(pn) ==
    CASE pn = "PA "  -> "PA"
      [] pn = " PA"  -> "PA"
      [] pn = "PB "  -> "PB"
      [] pn = " PC"  -> "PC"
      [] pn = "PM1 " -> "PM1"
      [] pn = "P2 "  -> "P2"
      [] OTHER       -> pn

Row(name, pn, qty, cost) ==
    [Name |-> name, PartNumber |-> pn, Quantity |-> qty, Cost |-> cost]

Rule(parent, name, pn, cost) ==
    [ParentPartNumber |-> parent, AccessoryName |-> name,
     AccessoryPartNumber |-> pn, AccessoryCost |-> cost]

\* frame['PartNumber'] = frame['PartNumber'].str.strip()
StripPartNumber(frame) ==
    [i \in DOMAIN frame |-> [frame[i] EXCEPT !.PartNumber = strip(frame[i].PartNumber)]]

\* accessories_df['ParentPartNumber'] = accessories_df['ParentPartNumber'].str.strip()
StripParentPartNumber(accessories_df) ==
    [i \in DOMAIN accessories_df |->
        [accessories_df[i] EXCEPT !.ParentPartNumber = strip(accessories_df[i].ParentPartNumber)]]

\* a variant that gives every accessory the quantity 1
AccessoryRowUnitQuantity(parent, rule) ==
    [Name |-> rule.AccessoryName, PartNumber |-> rule.AccessoryPartNumber,
     Quantity |-> 1, Cost |-> rule.AccessoryCost]

\* one row of found_accessories cut to the four columns and renamed
AccessoryRow(parent, rule) ==
    [Name |-> rule.AccessoryName, PartNumber |-> rule.AccessoryPartNumber,
     Quantity |-> parent.Quantity, Cost |-> rule.AccessoryCost]

\* the rules one parent row is joined with, in the order of accessories_df
RECURSIVE MatchesOf(_, _)
MatchesOf(parent, accessories_df) ==
    IF accessories_df = <<>> THEN <<>>
    ELSE (IF parent.PartNumber = Head(accessories_df).ParentPartNumber
          THEN <<AccessoryRow(parent, Head(accessories_df))>> ELSE <<>>)
         \o MatchesOf(parent, Tail(accessories_df))

\* parents_to_check.merge(accessories_df, left_on='PartNumber',
\*                        right_on='ParentPartNumber', how='inner')
\* followed by the column selection and rename
RECURSIVE Merge(_, _)
Merge(parents_to_check, accessories_df) ==
    IF parents_to_check = <<>> THEN <<>>
    ELSE MatchesOf(Head(parents_to_check), accessories_df)
         \o Merge(Tail(parents_to_check), accessories_df)

\* a variant that does not carry the found rows into the next iteration
NextParentsNone(accessories_for_boq) == <<>>

\* parents_to_check = accessories_for_boq
NextParents(accessories_for_boq) == accessories_for_boq

\* pd.concat(full_accessory_list), or the empty frame
RECURSIVE Concat(_)
Concat(frames) == IF frames = <<>> THEN <<>> ELSE Head(frames) \o Concat(Tail(frames))

\* The frame parents_to_check is the very object appended last to
\* full_accessory_list, so stripping its PartNumber column changes that
\* list's last frame too (not in the first iteration, where it is the copy
\* of the argument).
StripLast(frames) ==
    IF frames = <<>> THEN frames
    ELSE [frames EXCEPT ![Len(frames)] = StripPartNumber(frames[Len(frames)])]

(***************************************************************************)
(* The loop, one iteration a step.  acc.rounds counts the iterations that  *)
(* found accessories.  An iteration is modelled while rounds does not      *)
(* exceed the number of rules: a row found in round k descends from the    *)
(* argument through a chain of k rules, so once rounds exceeds the number  *)
(* of rules a rule repeats on a chain and the loop finds rows forever.     *)
(***************************************************************************)
RulePool ==
    << Rule("PA", "AccB", "PB ", 5),
       Rule("PB", "AccC", "PC", 3),
       Rule(" PA", "AccD", "PD", 4),
       Rule("PC", "AccA", "PA", 2),
       Rule("PB", "AccB2", "PB", 1) >>

\* the rule tables: the pool's rules of a set of indices, in pool order
RECURSIVE Pick(_, _)
Pick(pool, idx) ==
    IF pool = <<>> THEN <<>>
    ELSE (IF Len(pool) \in idx THEN Pick(SubSeq(pool, 1, Len(pool) - 1), idx) \o <<pool[Len(pool)]>>
          ELSE Pick(SubSeq(pool, 1, Len(pool) - 1), idx))

RuleTables == {Pick(RulePool, idx) : idx \in SUBSET (DOMAIN RulePool)}

PartsRows ==
    {Row("A", "PA", 1, 10), Row("A", "PA ", 2, 10), Row("B", "PB", 1, 20),
     Row("C", " PC", 3, 30)}

PartsLists == UNION {[1..n -> PartsRows] : n \in 0..MaxParents}

AccStart(parent_components_df, accessories_df, run, first) ==
    [pc |-> "loop", run |-> run, rounds |-> 0,
     parent_components_df |-> parent_components_df,
     accessories_df |-> accessories_df,
     full_accessory_list |-> <<>>,
     parents_to_check |-> parent_components_df,
     result |-> <<>>, first |-> first]

InitAcc ==
    /\ \E p \in PartsLists, r \in RuleTables : acc = AccStart(p, r, 1, <<>>)
    /\ fin = [pc |-> "off"]
    /\ PANELS_DF = 0
    /\ uploaded = <<>>
    /\ resp = <<>>
    /\ inflight = <<>>
    /\ cli = [pc |-> "off"]

\* found_accessories is not empty
AnyMatch(parents_to_check, accessories_df) ==
    \E i \in DOMAIN parents_to_check, j \in DOMAIN accessories_df :
        parents_to_check[i].PartNumber = accessories_df[j].ParentPartNumber

\* the frame has a Quantity column
HasQuantity(frame) == \A i \in DOMAIN frame : "Quantity" \in DOMAIN frame[i]

\* One pass through the body of "while not parents_to_check.empty".
\* found_accessories['Quantity'] is read only when the merge found rows, and
\* is a KeyError when the parents frame has no Quantity column.
AccStep(a) ==
    LET parents == StripPartNumber(a.parents_to_check)
        full    == StripLast(a.full_accessory_list)
        rules   == StripParentPartNumber(a.accessories_df)
    IN  IF ~AnyMatch(parents, rules)
        THEN [a EXCEPT !.pc = "after", !.parents_to_check = parents,
                       !.full_accessory_list = full, !.accessories_df = rules]
        ELSE IF ~HasQuantity(parents)
        THEN [a EXCEPT !.pc = "raised", !.parents_to_check = parents,
                       !.full_accessory_list = full, !.accessories_df = rules]
        ELSE [a EXCEPT !.rounds = @ + 1,
                       !.parents_to_check = NextParents(Merge(parents, rules)),
                       !.full_accessory_list = Append(full, Merge(parents, rules)),
                       !.accessories_df = rules]

\* the two return statements
AccReturned(a) == [a EXCEPT !.pc = "returned", !.result = Concat(a.full_accessory_list)]

AccIterate ==
    /\ acc.pc = "loop"
    /\ acc.parents_to_check # <<>>
    /\ acc.rounds <= Len(acc.accessories_df)
    /\ acc' = AccStep(acc)
    /\ UNCHANGED <<fin, PANELS_DF, uploaded, resp, inflight, cli>>

\* the while condition is false
AccExit ==
    /\ acc.pc = "loop"
    /\ acc.parents_to_check = <<>>
    /\ acc' = [acc EXCEPT !.pc = "after"]
    /\ UNCHANGED <<fin, PANELS_DF, uploaded, resp, inflight, cli>>

AccReturn ==
    /\ acc.pc = "after"
    /\ acc' = AccReturned(acc)
    /\ UNCHANGED <<fin, PANELS_DF, uploaded, resp, inflight, cli>>

\* the expansion is run again on the rows it returned, with the same rules
AccAgain ==
    /\ acc.pc = "returned"
    /\ acc.run = 1
    /\ acc' = AccStart(acc.result, acc.accessories_df, 2, acc.result)
    /\ UNCHANGED <<fin, PANELS_DF, uploaded, resp, inflight, cli>>

\* The loop run to its end, for the callers: the final record has pc
\* "returned" (result holds the frame), "raised" (KeyError) or "diverges"
\* (the rounds exceeded the number of rules, the loop never ends).
RECURSIVE AccRun(_)
AccRun(a) ==
    IF a.pc = "loop" /\ a.parents_to_check = <<>> THEN AccRun([a EXCEPT !.pc = "after"])
    ELSE IF a.pc = "loop" /\ a.rounds > Len(a.accessories_df) THEN [a EXCEPT !.pc = "diverges"]
    ELSE IF a.pc = "loop" THEN AccRun(AccStep(a))
    ELSE IF a.pc = "after" THEN AccReturned(a)
    ELSE a

get_accessories_recursively(parent_components_df, accessories_df) ==
    AccRun(AccStart(parent_components_df, accessories_df, 1, <<>>))

NextAcc == AccIterate \/ AccExit \/ AccReturn \/ AccAgain

SpecAcc == InitAcc /\ [][NextAcc]_vars

(***************************************************************************)
(* The catalog files the handlers read on every request (controllers.csv,  *)
(* servers.csv, server_modules.csv, accessories.csv) and the panel files   *)
(* users upload.  Catalog rows have the columns of ComponentSpec: no       *)
(* Quantity column.                                                        *)
(***************************************************************************)
controllers ==
    << Comp("C1", "PC1", 100, 2, 2, 0, 0, 0, 0, 0),
       Comp("CX", "PCX", 70, 1, 0, 1, 0, 1, 0, 0) >>

servers ==
    << Comp("AS-P", "PSP", 200, 0, 0, 0, 0, 0, 0, 0),
       Comp("AS-B-L", "PBL", 220, 2, 2, 1, 1, 0, 0, 2),
       Comp("AS-B-S", "PBS", 150, 1, 1, 0, 0, 0, 0, 0) >>

server_modules ==
    << Comp("M1", "PM1", 30, 2, 1, 0, 0, 0, 0, 0),
       Comp("M2", "PM2", 40, 0, 1, 1, 0, 1, 0, 0) >>

accessories ==
    << Rule("PSP", "Term", "PT", 5),
       Rule("PM1 ", "Base", "PBASE", 4),
       Rule("PBASE", "Clip", "PCL", 1),
       Rule("PBS", "PSU", "PPS", 9),
       Rule("PC1", "Cover", "PCV", 2) >>

PanelRow(name, di, do, ai, ao) ==
    [PanelName |-> name, DI |-> di, DO |-> do, AI |-> ai, AO |-> ao]

\* the panel files: file 1 and file 2 both have a panel P1, with different
\* demands; P2 (written with a trailing blank) and P3 are in file 1 only;
\* file 3 has no PanelName column
PanelFiles ==
    << << PanelRow("P1", 2, 2, 1, 0), PanelRow("P2 ", 1, 0, 1, 0),
          PanelRow("P3", 2, 2, 0, 2) >>,
       << PanelRow("P1", 1, 1, 0, 0), PanelRow("P0", 0, 0, 0, 0) >>,
       << [Panel |-> "P1", DI |-> 1, DO |-> 1, AI |-> 0, AO |-> 0] >> >>

\* pd.read_csv(...).fillna(0) and panels_df['PanelName'].str.strip()
ReadPanels(file) ==
    [i \in DOMAIN file |-> [file[i] EXCEPT !.PanelName = strip(file[i].PanelName)]]

\* panels_df['PanelName'].tolist()
PanelNames(panels_df) == [i \in DOMAIN panels_df |-> panels_df[i].PanelName]

\* frame[frame[column] == value]
RowsWhere(frame, column, value) ==
    SelectSeq(frame, LAMBDA row : row[column] = value)

\* str.contains(pattern, case=False) on a component name
fold(ch) ==
    CASE ch = "a" -> "A" [] ch = "s" -> "S" [] ch = "p" -> "P" [] ch = "b" -> "B"
      [] OTHER -> ch

contains(name, pattern) ==
    LET c == [i \in DOMAIN Chars(name) |-> fold(Chars(name)[i])]
    IN  \E i \in 1..(Len(c) - Len(pattern) + 1) :
            SubSeq(c, i, i + Len(pattern) - 1) = pattern

\* servers[servers['Name'].str.contains("AS-P", case=False)]
asp_servers == SelectSeq(servers, LAMBDA row : contains(row.Name, <<"A", "S", "-", "P">>))

\* servers[servers['Name'].str.contains("AS-B", case=False)]
asb_servers == SelectSeq(servers, LAMBDA row : contains(row.Name, <<"A", "S", "-", "B">>))

(***************************************************************************)
(* The options of one server panel (app.py:160-178, selector.py:151-176).  *)
(***************************************************************************)
\* float('inf'), the cost of an option that is not valid (selector.py:162)
Infinity == 1000000

Option(type, name, cost, valid, components) ==
    [type |-> type, name |-> name, cost |-> cost, valid |-> valid,
     components |-> components]

\* frame['Cost'].sum()
CostSum(frame) == SumSeq([i \in DOMAIN frame |-> frame[i].Cost])

\* modules.items(): the names with a quantity, in catalog order
Items(components_df, solution) ==
    SelectSeq([i \in DOMAIN components_df |-> components_df[i].Name],
              LAMBDA n : n \in DOMAIN solution)

\* server_modules[server_modules['Name'] == name].iloc[0]
Info(components_df, name) == RowsWhere(components_df, "Name", name)[1]

\* primary_components: the AS-P server once, then every chosen module
PrimaryComponents(asp_server, modules) ==
    LET items == Items(server_modules, modules)
        info(name) == Info(server_modules, name)
    IN  <<Row(asp_server.Name, asp_server.PartNumber, 1, asp_server.Cost)>>
        \o [i \in DOMAIN items |->
              Row(items[i], info(items[i]).PartNumber, modules[items[i]], info(items[i]).Cost)]

\* how a call of get_accessories_recursively ends for its caller
AccStatus(e) ==
    IF e.pc = "returned" THEN "ok" ELSE IF e.pc = "raised" THEN "KeyError" ELSE "hang"

\* The AS-P option, r being what find_optimal_combination gave on the module
\* catalog.  app.py appends nothing when modules is None; selector.py
\* appends an option that is not valid.
ModularOption(variant, r) ==
    LET e == get_accessories_recursively(PrimaryComponents(asp_servers[1], r.solution),
                                         accessories)
    IN  IF r.outcome \notin {"ok", "none"} THEN [status |-> r.outcome, opts |-> <<>>]
        ELSE IF r.outcome = "none"
        THEN [status |-> "ok",
              opts |-> IF variant = "app" THEN <<>>
                       ELSE <<Option("AS-P", "AS-P System", Infinity, FALSE, <<>>)>>]
        ELSE IF AccStatus(e) # "ok" THEN [status |-> AccStatus(e), opts |-> <<>>]
        ELSE [status |-> "ok",
              opts |-> <<Option("AS-P", "AS-P System",
                                asp_servers[1].Cost + r.total_cost + CostSum(e.result),
                                TRUE, r.solution)>>]

\* the closed-form test of one AS-B unit
StandaloneFits(requirements, asb, spare) ==
    LET req_inputs  == CeilSpare(requirements.DI + requirements.AI, spare)
        req_outputs == CeilSpare(requirements.DO + requirements.AO, spare)
        total_req   == req_inputs + req_outputs
        total_avail == asb.DI + asb.AI + asb.UI + asb.DO + asb.AO + asb.UO + asb.UIO
        max_in      == asb.DI + asb.AI + asb.UI + asb.UIO
        max_out     == asb.DO + asb.AO + asb.UO + asb.UIO
    IN  total_avail >= total_req /\ max_in >= req_inputs /\ max_out >= req_outputs

\* one pass of "for _, asb in asb_servers.iterrows()": the frame handed to
\* the expansion is pd.DataFrame([asb]), the catalog row as it is
StandaloneOption(variant, requirements, asb, spare) ==
    LET e == get_accessories_recursively(<<asb>>, accessories)
    IN  IF ~StandaloneFits(requirements, asb, spare)
        THEN [status |-> "ok",
              opts |-> IF variant = "app" THEN <<>>
                       ELSE <<Option("AS-B", asb.Name, Infinity, FALSE, <<>>)>>]
        ELSE IF AccStatus(e) # "ok" THEN [status |-> AccStatus(e), opts |-> <<>>]
        ELSE [status |-> "ok",
              opts |-> <<Option("AS-B", asb.Name, asb.Cost + CostSum(e.result), TRUE,
                                (asb.Name :> 1))>>]

\* statements run one after the other: the first that does not end "ok"
\* ends the whole, otherwise the options add up in order
RECURSIVE InOrder(_)
InOrder(parts) ==
    IF parts = <<>> THEN [status |-> "ok", opts |-> <<>>]
    ELSE LET rest == InOrder(Tail(parts))
         IN  IF Head(parts).status # "ok" THEN [status |-> Head(parts).status, opts |-> <<>>]
             ELSE IF rest.status # "ok" THEN rest
             ELSE [status |-> "ok", opts |-> Head(parts).opts \o rest.opts]

\* sorted(options, key=lambda x: x['cost']): stable, ascending
RECURSIVE SortedByCost(_)
SortedByCost(options) ==
    IF options = <<>> THEN <<>>
    ELSE LET rest == SortedByCost(SubSeq(options, 1, Len(options) - 1))
             x    == options[Len(options)]
         IN  SelectSeq(rest, LAMBDA o : o.cost <= x.cost) \o <<x>>
                \o SelectSeq(rest, LAMBDA o : o.cost > x.cost)

\* the options list of one panel; app.py returns it sorted, selector.py
\* shows it in the order built
ServerOptions(variant, requirements, spare, r) ==
    LET built == InOrder(<<ModularOption(variant, r)>>
                         \o [i \in DOMAIN asb_servers |->
                               StandaloneOption(variant, requirements, asb_servers[i], spare)])
    IN  IF built.status # "ok" THEN built
        ELSE [status |-> "ok",
              opts |-> IF variant = "app" THEN SortedByCost(built.opts) ELSE built.opts]

(***************************************************************************)
(* Ordering of strings, as sorted() and pandas' groupby and pivot_table    *)
(* order labels: by code point, a proper prefix first.                     *)
(***************************************************************************)
RECURSIVE SeqLess(_, _)
SeqLess(a, b) ==
    IF b = <<>> THEN FALSE
    ELSE IF a = <<>> THEN TRUE
    ELSE IF ord(Head(a)) # ord(Head(b)) THEN ord(Head(a)) < ord(Head(b))
    ELSE SeqLess(Tail(a), Tail(b))

StrLess(a, b) == SeqLess(Chars(a), Chars(b))

\* sorted(names) of a set of distinct names
RECURSIVE Sorted(_)
Sorted(names) ==
    IF names = {} THEN <<>>
    ELSE LET first == CHOOSE x \in names : \A y \in names \ {x} : StrLess(x, y)
         IN  <<first>> \o Sorted(names \ {first})

(***************************************************************************)
(* The report (app.py:188-213).  all_solutions is a sequence of rows       *)
(* PanelName, ControllerName, Quantity.                                    *)
(***************************************************************************)
NoSolutionFound == "No Solution Found"

SolutionRow(panel_name, component, qty) ==
    [PanelName |-> panel_name, ControllerName |-> component, Quantity |-> qty]

\* a choice of the request: JSON null, or an object with its components
NullChoice == [null |-> TRUE, components |-> <<>>]

Choice(components) == [null |-> FALSE, components |-> components]

\* the rows of one mapping component -> quantity, for one panel
ComponentRows(panel_name, components) ==
    LET names == Sorted(DOMAIN components)
    IN  [i \in DOMAIN names |-> SolutionRow(panel_name, names[i], components[names[i]])]

\* for panel_name, choice in panel_choices.items(): rows only where there
\* is a choice and its components are not empty
RECURSIVE ChoiceRows(_)
ChoiceRows(panel_choices) ==
    IF panel_choices = <<>> THEN <<>>
    ELSE (IF ~Head(panel_choices).choice.null
             /\ DOMAIN Head(panel_choices).choice.components # {}
          THEN ComponentRows(Head(panel_choices).panel, Head(panel_choices).choice.components)
          ELSE <<>>)
         \o ChoiceRows(Tail(panel_choices))

\* what one standard panel adds, r being the result of its sizing:
\* "if result" is false for None and for the empty mapping alike
StandardRows(panel_name, r) ==
    IF r.outcome = "ok" /\ DOMAIN r.solution # {}
    THEN ComponentRows(panel_name, r.solution)
    ELSE <<SolutionRow(panel_name, NoSolutionFound, 0)>>

\* for panel_name in standard_panels: the possible outcomes, one for every
\* way the solver may break ties; an exception ends the loop
RECURSIVE StandardSolutions(_, _, _, _)
StandardSolutions(panels_df, standard_panels, spare, solvers) ==
    IF standard_panels = <<>> THEN {[status |-> "ok", rows |-> <<>>]}
    ELSE LET found == RowsWhere(panels_df, "PanelName", Head(standard_panels))
             rest  == StandardSolutions(panels_df, Tail(standard_panels), spare, Tail(solvers))
         IN  IF found = <<>> THEN {[status |-> "IndexError", rows |-> <<>>]}
             ELSE UNION {
                    IF r.outcome \notin {"ok", "none"}
                    THEN {[status |-> r.outcome, rows |-> <<>>]}
                    ELSE {IF t.status # "ok" THEN t
                          ELSE [status |-> "ok",
                                rows |-> StandardRows(Head(standard_panels), r) \o t.rows]
                          : t \in rest}
                    : r \in find_optimal_combination("app", found[1], controllers, spare,
                                                     Head(solvers)) }

\* the values of one column of a frame, as a set
Column(frame, column) == {frame[i][column] : i \in DOMAIN frame}

\* pivot_table's default aggregation, the mean of the quantities of one
\* (panel, component) pair; fill_value where there is none
Cell(solution_df, panel_name, component) ==
    LET qs == SelectSeq(solution_df, LAMBDA row : row.PanelName = panel_name
                                                  /\ row.ControllerName = component)
    IN  IF qs = <<>> THEN 0
        ELSE SumSeq([i \in DOMAIN qs |-> qs[i].Quantity]) \div Len(qs)

\* pivoted_df['SUM'] = pivoted_df.sum(axis=1): over the component columns
\* present at that moment
RowSum(solution_df, panel_name) ==
    LET columns == Sorted(Column(solution_df, "ControllerName"))
    IN  SumSeq([i \in DOMAIN columns |-> Cell(solution_df, panel_name, columns[i])])

\* the matrix: one record per panel of solution_df.  app.py sets the SUM
\* column in any case and puts the columns in final_order; selector.py
\* adds SUM only when no component has that name and leaves the columns as
\* pivot_table ordered them.
Matrix(variant, solution_df) ==
    LET components == Column(solution_df, "ControllerName")
        main_cols  == Sorted(components \ {"PanelName", "SUM"})
        index      == Sorted(Column(solution_df, "PanelName"))
    IN  [columns |-> IF variant = "app" THEN <<"PanelName">> \o main_cols \o <<"SUM">>
                     ELSE <<"PanelName">> \o Sorted(components)
                             \o (IF "SUM" \in components THEN <<>> ELSE <<"SUM">>),
         records |-> [i \in DOMAIN index |->
                        [PanelName |-> index[i],
                         cells |-> [c \in Range(main_cols) |-> Cell(solution_df, index[i], c)],
                         SUM |-> IF variant = "cli" /\ "SUM" \in components
                                 THEN Cell(solution_df, index[i], "SUM")
                                 ELSE RowSum(solution_df, index[i])]]]

\* a value that is missing after a left merge
NaN == "NaN"

\* the cost of a row the left merge found no catalog entry for
NaNCost == -1

\* solution_df.groupby('ControllerName')['Quantity'].sum(); app.py takes
\* the sentinel's rows out first, selector.py does not
PrimaryGroups(variant, solution_df) ==
    LET kept  == SelectSeq(solution_df, LAMBDA row : variant = "cli"
                                                     \/ row.ControllerName # NoSolutionFound)
        names == Sorted(Column(kept, "ControllerName"))
        rows(n) == RowsWhere(kept, "ControllerName", n)
    IN  [i \in DOMAIN names |->
            [ControllerName |-> names[i],
             Quantity |-> SumSeq([j \in DOMAIN rows(names[i]) |-> rows(names[i])[j].Quantity])]]

\* pd.concat([controllers, servers, server_modules])
all_components == controllers \o servers \o server_modules

\* primary_boq.merge(all_components, left_on='ControllerName', right_on='Name',
\*                   how='left'), cut to Name, PartNumber, Quantity, Cost
RECURSIVE LeftMerge(_)
LeftMerge(groups) ==
    IF groups = <<>> THEN <<>>
    ELSE LET hits == RowsWhere(all_components, "Name", Head(groups).ControllerName)
         IN  (IF hits = <<>> THEN <<Row(NaN, NaN, Head(groups).Quantity, NaNCost)>>
              ELSE [i \in DOMAIN hits |->
                      Row(hits[i].Name, hits[i].PartNumber, Head(groups).Quantity, hits[i].Cost)])
             \o LeftMerge(Tail(groups))

\* the order of the group keys (Name, PartNumber, Cost)
KeyLess(a, b) ==
    \/ StrLess(a.Name, b.Name)
    \/ a.Name = b.Name /\ a.PartNumber # b.PartNumber /\ StrLess(a.PartNumber, b.PartNumber)
    \/ a.Name = b.Name /\ a.PartNumber = b.PartNumber /\ a.Cost < b.Cost

RECURSIVE SortedKeys(_)
SortedKeys(keys) ==
    IF keys = {} THEN <<>>
    ELSE LET first == CHOOSE x \in keys : \A y \in keys \ {x} : KeyLess(x, y)
         IN  <<first>> \o SortedKeys(keys \ {first})

\* final_boq_df.groupby(['Name', 'PartNumber', 'Cost'])['Quantity'].sum(), rows
\* with a missing key left out, then TotalCost and the renamed Name column
BoqLines(final_boq_df) ==
    LET known == SelectSeq(final_boq_df, LAMBDA row : row.Name # NaN)
        keys  == SortedKeys({[Name |-> known[i].Name, PartNumber |-> known[i].PartNumber,
                              Cost |-> known[i].Cost] : i \in DOMAIN known})
        qty(k) == LET rows == SelectSeq(known, LAMBDA row : row.Name = k.Name
                                                   /\ row.PartNumber = k.PartNumber
                                                   /\ row.Cost = k.Cost)
                  IN  SumSeq([j \in DOMAIN rows |-> rows[j].Quantity])
    IN  [i \in DOMAIN keys |->
            [ControllerName |-> keys[i].Name, PartNumber |-> keys[i].PartNumber,
             Cost |-> keys[i].Cost, Quantity |-> qty(keys[i]),
             TotalCost |-> qty(keys[i]) * keys[i].Cost]]

\* the summary line with the unit costs of the lines summed, the quantities
\* left out
GrandTotalOfUnitCosts(lines) ==
    [ControllerName |-> "Grand Total", PartNumber |-> "", Cost |-> "", Quantity |-> "",
     TotalCost |-> SumSeq([i \in DOMAIN lines |-> lines[i].Cost])]

\* final_boq_df.loc[len(final_boq_df.index)] = ['Grand Total', '', '', '', grand_total]
GrandTotal(lines) ==
    [ControllerName |-> "Grand Total", PartNumber |-> "", Cost |-> "", Quantity |-> "",
     TotalCost |-> SumSeq([i \in DOMAIN lines |-> lines[i].TotalCost])]

\* the BOQ of solution_df: [status, boq]; app.py gives the empty BOQ when
\* nothing but sentinel rows is left
Boq(variant, solution_df) ==
    LET primary_boq == LeftMerge(PrimaryGroups(variant, solution_df))
        e           == get_accessories_recursively(primary_boq, accessories)
        lines       == BoqLines(primary_boq \o e.result)
    IN  IF variant = "app" /\ primary_boq = <<>> THEN [status |-> "ok", boq |-> <<>>]
        ELSE IF AccStatus(e) # "ok" THEN [status |-> AccStatus(e), boq |-> <<>>]
        ELSE [status |-> "ok", boq |-> lines \o <<GrandTotal(lines)>>]

(***************************************************************************)
(* The web handlers.  PANELS_DF is app.config['PANELS_DF'], one slot for   *)
(* the whole process: 0 while it has never been set, else the number of    *)
(* the panel file it was read from.  resp[u] is the last request of user u *)
(* with the response it got; uploaded[u] is the file u uploaded last.      *)
(***************************************************************************)
Users == {"u1", "u2"}

Response(status, error, body) == [status |-> status, error |-> error, body |-> body]

\* data.get(key, default)
Get(data, key, default) == IF key \in DOMAIN data THEN data[key] ELSE default

\* the frame kept in the slot
Frame(config) == ReadPanels(PanelFiles[config])

\* file 0 stands for a request without a file
get_panel_names(config, file) ==
    IF file = 0
    THEN [config |-> config, response |-> Response(400, "No file uploaded", <<>>)]
    ELSE IF \E i \in DOMAIN PanelFiles[file] : "PanelName" \notin DOMAIN PanelFiles[file][i]
    THEN [config |-> config, response |-> Response(500, "Error processing CSV", <<>>)]
    ELSE [config |-> file,
          response |-> Response(200, "", PanelNames(ReadPanels(PanelFiles[file])))]

\* an exception that leaves a handler: the framework answers 500
InternalServerError(exception) == Response(500, exception, <<>>)

\* the possible responses of one sizing request
calculate_options(config, data, solver) ==
    LET panel_name == data.panel_name
        spare      == Get(data, "spare_points_percentage", DEFAULT_SPARE_POINTS_PERCENTAGE)
        found      == RowsWhere(Frame(config), "PanelName", panel_name)
    IN  IF config = 0
        THEN {Response(400, "Panels data not found. Please upload again.", <<>>)}
        ELSE IF found = <<>> THEN {InternalServerError("IndexError")}
        ELSE {LET options == ServerOptions("app", found[1], spare, r)
              IN  IF options.status # "ok" THEN InternalServerError(options.status)
                  ELSE Response(200, "", options.opts)
              : r \in find_optimal_combination("app", found[1], server_modules, spare, solver)}

\* the response once all_solutions is built
ReportBody(all_solutions) ==
    LET b == Boq("app", all_solutions)
    IN  IF all_solutions = <<>>
        THEN Response(200, "", [matrix |-> [columns |-> <<>>, records |-> <<>>], boq |-> <<>>])
        ELSE IF "PanelName" \in Column(all_solutions, "ControllerName")
        THEN InternalServerError("ValueError")
        ELSE IF b.status # "ok" THEN InternalServerError(b.status)
        ELSE Response(200, "", [matrix |-> Matrix("app", all_solutions), boq |-> b.boq])

\* the possible responses of one report request; solvers[k] is how the
\* solver runs for the k-th standard panel
generate_reports(config, data, solvers) ==
    LET spare == Get(data, "spare_points_percentage", DEFAULT_SPARE_POINTS_PERCENTAGE)
    IN  IF config = 0 THEN {InternalServerError("KeyError")}
        ELSE {IF t.status # "ok" THEN InternalServerError(t.status)
              ELSE ReportBody(ChoiceRows(data.panel_choices) \o t.rows)
              : t \in StandardSolutions(Frame(config), data.standard_panels, spare, solvers)}

\* a request a user has sent and the server has not handled yet
Message(kind, data) == [kind |-> kind, data |-> data]

\* a handled request: the slot as the handler found it, what was asked, how
\* the solver ran, and the response
Request(kind, config, data, solver, response) ==
    [kind |-> kind, config |-> config, data |-> data, solver |-> solver,
     response |-> response]

\* no request of the user handled yet
NoRequest == Request("none", 0, <<>>, <<>>, Response(0, "", <<>>))

\* user u's oldest request is of this kind
Next_(u, kind) == inflight[u] # <<>> /\ Head(inflight[u]).kind = kind

Handled(u) == inflight' = [inflight EXCEPT ![u] = Tail(inflight[u])]

GetPanelNames ==
    \E u \in Users :
        /\ Next_(u, "get_panel_names")
        /\ LET file == Head(inflight[u]).data
               r    == get_panel_names(PANELS_DF, file)
           IN  /\ PANELS_DF' = r.config
               /\ uploaded' = IF r.response.status = 200
                              THEN [uploaded EXCEPT ![u] = file] ELSE uploaded
               /\ resp' = [resp EXCEPT ![u] = Request("get_panel_names", PANELS_DF, file,
                                                      "none", r.response)]
        /\ Handled(u)
        /\ UNCHANGED <<fin, acc, cli>>

CalculateOptions ==
    \E u \in Users, solver \in SolverRuns :
        /\ Next_(u, "calculate_options")
        /\ \E response \in calculate_options(PANELS_DF, Head(inflight[u]).data, solver) :
              resp' = [resp EXCEPT ![u] = Request("calculate_options", PANELS_DF,
                                                  Head(inflight[u]).data, solver, response)]
        /\ Handled(u)
        /\ UNCHANGED <<fin, acc, PANELS_DF, uploaded, cli>>

GenerateReports ==
    \E u \in Users :
        /\ Next_(u, "generate_reports")
        /\ \E solver \in [DOMAIN Head(inflight[u]).data.standard_panels -> SolverRuns] :
              \E response \in generate_reports(PANELS_DF, Head(inflight[u]).data, solver) :
                  resp' = [resp EXCEPT ![u] = Request("generate_reports", PANELS_DF,
                                                      Head(inflight[u]).data, solver, response)]
        /\ Handled(u)
        /\ UNCHANGED <<fin, acc, PANELS_DF, uploaded, cli>>

NextWeb == GetPanelNames \/ CalculateOptions \/ GenerateReports

\* the files a request may carry: none, the two panel files, the file
\* without a PanelName column
Files == 0..Len(PanelFiles)

ReportData(panel_choices, standard_panels) ==
    [panel_choices |-> panel_choices, standard_panels |-> standard_panels]

PanelChoice(panel_name, choice) == [panel |-> panel_name, choice |-> choice]

(***************************************************************************)
(* Two users, each uploading a file and then asking for a sizing or a      *)
(* report, the server handling the four requests in any order that keeps   *)
(* each user's own order.                                                  *)
(***************************************************************************)
WebRequests ==
    {Message("calculate_options", [panel_name |-> n]) : n \in {"P1", "P3"}}
    \cup {Message("generate_reports", d) :
            d \in {ReportData(<<>>, <<"P1">>),
                   ReportData(<<PanelChoice("P3", Choice([M1 |-> 1]))>>, <<"P1">>)}}

\* a user uploads one of the two panel files and sends a request, or sends
\* a sizing request without ever uploading
WebSessions ==
    {<<Message("get_panel_names", f), q>> : f \in {1, 2}, q \in WebRequests}
    \cup {<<Message("calculate_options", [panel_name |-> "P1"])>>}

InitWeb ==
    /\ fin = [pc |-> "off"]
    /\ acc = [pc |-> "off"]
    /\ PANELS_DF = 0
    /\ uploaded = [u \in Users |-> 0]
    /\ resp = [u \in Users |-> NoRequest]
    /\ inflight \in [Users -> WebSessions]
    /\ cli = [pc |-> "off"]

SpecWeb == InitWeb /\ [][NextWeb]_vars

(***************************************************************************)
(* One user, with every kind of request: any panel of either file or of    *)
(* none, any spare percentage or none given, any run of the solver.        *)
(***************************************************************************)
RequestNames == {"P0", "P1", "P2", "P3", "P9"}

WithSpare(data) ==
    {data} \cup {data @@ [spare_points_percentage |-> s] : s \in Spares}

Sizings == UNION {WithSpare([panel_name |-> n]) : n \in RequestNames}

ChoiceLists ==
    { <<>>,
      <<PanelChoice("P1", NullChoice)>>,
      <<PanelChoice("P1", Choice(<<>>))>>,
      <<PanelChoice("P1", Choice([M1 |-> 1, M2 |-> 1]))>>,
      <<PanelChoice("P1", Choice([M9 |-> 1]))>>,
      <<PanelChoice("P1", Choice([M1 |-> 1, SUM |-> 2]))>>,
      <<PanelChoice("P1", Choice([M1 |-> 1, PanelName |-> 1]))>>,
      <<PanelChoice("P3", Choice(("AS-B-L" :> 1)))>>,
      <<PanelChoice("P9", Choice(("AS-B-L" :> 1)))>>,
      <<PanelChoice("P1", Choice([M1 |-> 2, M2 |-> 1])), PanelChoice("P3", NullChoice)>> }

\* the lists of standard panels: no panel twice, none that has a choice
StandardLists(panel_choices) ==
    LET free == RequestNames \ {panel_choices[i].panel : i \in DOMAIN panel_choices}
    IN  {<<>>} \cup {<<a>> : a \in free}
               \cup {p \in {<<a, b>> : a \in free, b \in free} : p[1] # p[2]}

Reports ==
    UNION {UNION {WithSpare(ReportData(c, s)) : s \in StandardLists(c)} : c \in ChoiceLists}

ReportSessions ==
    {<<Message("get_panel_names", f), q>> :
        f \in Files,
        q \in {Message("calculate_options", d) : d \in Sizings}
              \cup {Message("generate_reports", d) : d \in Reports}}

InitReport ==
    /\ fin = [pc |-> "off"]
    /\ acc = [pc |-> "off"]
    /\ PANELS_DF = 0
    /\ uploaded = [u \in Users |-> 0]
    /\ resp = [u \in Users |-> NoRequest]
    /\ inflight \in {[u \in Users |-> IF u = "u1" THEN session ELSE <<>>] :
                       session \in ReportSessions}
    /\ cli = [pc |-> "off"]

SpecReport == InitReport /\ [][NextWeb]_vars

(***************************************************************************)
(* The script of selector.py.  cli holds what the operator entered (the    *)
(* panel file in the directory, the spare percentage, the names of the     *)
(* server panels) and where the script stands.                             *)
(***************************************************************************)
NoValidServerSolution == "No Valid Server Solution"

\* any exception ends the script: "An unexpected error occurred"
CliFailed(c, exception) == [c EXCEPT !.pc = "failed", !.error = exception]

\* lines 117-140: the files are read, the prompts answered
CliLoad ==
    /\ cli.pc = "start"
    /\ cli' = IF \E i \in DOMAIN PanelFiles[cli.file] :
                    "PanelName" \notin DOMAIN PanelFiles[cli.file][i]
              THEN CliFailed(cli, "KeyError")
              ELSE [cli EXCEPT !.pc = "decide",
                               !.panels = ReadPanels(PanelFiles[cli.file]),
                               !.todo = Sorted(cli.server_panel_names)]
    /\ UNCHANGED <<fin, acc, PANELS_DF, uploaded, resp, inflight>>

\* the indices of the options shown as valid
ValidChoices(options) == {i \in DOMAIN options : options[i].valid}

\* panel_server_choices[panel_name] for the option chosen
Chosen(option) ==
    IF option.type = "AS-P" THEN option.components @@ (asp_servers[1].Name :> 1)
    ELSE option.components

\* lines 147-187, one pass of the decision loop: the options of the next
\* server panel are shown and the operator enters one of the valid ones
CliDecision ==
    /\ cli.pc = "decide" /\ cli.todo # <<>>
    /\ \E solver \in SolverRuns :
          LET panel_name == Head(cli.todo)
              found      == RowsWhere(cli.panels, "PanelName", panel_name)
          IN  IF found = <<>> THEN cli' = CliFailed(cli, "IndexError")
              ELSE \E r \in find_optimal_combination("cli", found[1], server_modules,
                                                     cli.spare, solver) :
                     LET options == ServerOptions("cli", found[1], cli.spare, r)
                     IN  IF options.status # "ok" THEN cli' = CliFailed(cli, options.status)
                         ELSE IF ValidChoices(options.opts) = {}
                         THEN cli' = [cli EXCEPT
                                 !.todo = Tail(cli.todo),
                                 !.options = options.opts,
                                 !.panel_server_choices =
                                     @ @@ (panel_name :> (NoValidServerSolution :> 0))]
                         ELSE \E choice \in ValidChoices(options.opts) :
                                 cli' = [cli EXCEPT
                                    !.todo = Tail(cli.todo),
                                    !.options = options.opts,
                                    !.panel_server_choices =
                                        @ @@ (panel_name :> Chosen(options.opts[choice]))]
    /\ UNCHANGED <<fin, acc, PANELS_DF, uploaded, resp, inflight>>

\* lines 191-202: the rows of the panels from index k on, one outcome for
\* every run of the solver and every way it may break ties
RECURSIVE CliSolutions(_, _)
CliSolutions(c, k) ==
    IF k > Len(c.panels) THEN {[status |-> "ok", rows |-> <<>>]}
    ELSE LET panel_name == c.panels[k].PanelName
             rest       == CliSolutions(c, k + 1)
             then(rows) == {IF t.status # "ok" THEN t
                            ELSE [status |-> "ok", rows |-> rows \o t.rows] : t \in rest}
         IN  IF panel_name \in DOMAIN c.panel_server_choices
             THEN then(ComponentRows(panel_name, c.panel_server_choices[panel_name]))
             ELSE IF panel_name \in c.server_panel_names THEN rest
             ELSE UNION {UNION {IF r.outcome \notin {"ok", "none"}
                                THEN {[status |-> r.outcome, rows |-> <<>>]}
                                ELSE then(StandardRows(panel_name, r))
                                : r \in find_optimal_combination("cli", c.panels[k], controllers,
                                                                 c.spare, solver)}
                         : solver \in SolverRuns}

\* lines 190-226: the solutions are built and the two files written, the
\* matrix first
CliOutputs ==
    /\ cli.pc = "decide" /\ cli.todo = <<>>
    /\ \E t \in CliSolutions(cli, 1) :
          LET b == Boq("cli", t.rows)
          IN  cli' = IF t.status # "ok" THEN CliFailed(cli, t.status)
                     ELSE IF t.rows = <<>> THEN [cli EXCEPT !.pc = "done"]
                     ELSE IF b.status # "ok"
                     THEN [CliFailed(cli, b.status) EXCEPT
                              !.matrix = <<Matrix("cli", t.rows)>>]
                     ELSE [cli EXCEPT !.pc = "done",
                                      !.matrix = <<Matrix("cli", t.rows)>>,
                                      !.boq = <<b.boq>>]
    /\ UNCHANGED <<fin, acc, PANELS_DF, uploaded, resp, inflight>>

\* the sets of server panels the operator may name
ServerPanelSets == {S \in SUBSET {"P0", "P1", "P3", "P9"} : Cardinality(S) <= 2}

InitCli ==
    /\ fin = [pc |-> "off"]
    /\ acc = [pc |-> "off"]
    /\ PANELS_DF = 0
    /\ uploaded = <<>>
    /\ resp = <<>>
    /\ inflight = <<>>
    /\ cli \in [pc : {"start"}, file : DOMAIN PanelFiles, spare : Spares,
                server_panel_names : ServerPanelSets, panels : {<<>>}, todo : {<<>>},
                panel_server_choices : {<<>>}, options : {<<>>}, matrix : {<<>>},
                boq : {<<>>}, error : {""}]

NextCli == CliLoad \/ CliDecision \/ CliOutputs

SpecCli == InitCli /\ [][NextCli]_vars

(***************************************************************************)
(* C2, C7, C8: the accessory expansion.                                    *)
(***************************************************************************)
\* C2: the expansion terminates for every parts list and every rule table,
\* cyclic ones included: its iteration is bounded, so it never performs more
\* rounds that find accessories than the table has rules.
C2_ExpansionBounded ==
    acc.pc # "off" => acc.rounds <= Len(acc.accessories_df)

\* the chains of k rules, each rule's accessory the next rule's parent
Chains(accessories_df) ==
    UNION {{c \in [1..k -> DOMAIN accessories_df] :
              \A j \in 1..(k - 1) :
                 strip(accessories_df[c[j]].AccessoryPartNumber)
                    = strip(accessories_df[c[j + 1]].ParentPartNumber)} :
           k \in 1..Len(accessories_df)}

\* no chain of rules leads back to its first parent
Acyclic(accessories_df) ==
    \A c \in Chains(accessories_df) :
        strip(accessories_df[c[Len(c)]].AccessoryPartNumber)
            # strip(accessories_df[c[1]].ParentPartNumber)

\* the (row, chain) pairs: a row of the parts list and a chain of rules
\* starting at that row's part number
Derivations(parts, accessories_df) ==
    {d \in (DOMAIN parts) \X Chains(accessories_df) :
        strip(parts[d[1]].PartNumber) = strip(accessories_df[d[2][1]].ParentPartNumber)}

\* the accessory row a derivation stands for
DerivedRow(parts, accessories_df, d) ==
    LET last == accessories_df[d[2][Len(d[2])]]
    IN  [Name |-> last.AccessoryName, PartNumber |-> strip(last.AccessoryPartNumber),
         Quantity |-> parts[d[1]].Quantity, Cost |-> last.AccessoryCost]

Count(frame, x) == Cardinality({i \in DOMAIN frame : frame[i] = x})

\* C7: on an acyclic rule table the expansion returns, and whenever it
\* returns its result holds exactly one row per (row, chain of rules) pair
\* reachable from the parts list, with the accessory's name, (trimmed) part
\* number and unit cost and the quantity of the parts row the chain starts
\* at; it is empty when no parts row matches a rule.
C7_ExpansionExact ==
    /\ (acc.pc # "off" /\ acc.run = 1 /\ Acyclic(acc.accessories_df))
          => acc.rounds <= Len(acc.accessories_df)
    /\ (acc.pc = "returned" /\ acc.run = 1) =>
          LET D    == Derivations(acc.parent_components_df, acc.accessories_df)
              rows == {DerivedRow(acc.parent_components_df, acc.accessories_df, d) : d \in D}
          IN  \A x \in rows \cup Range(acc.result) :
                 Count(acc.result, x)
                    = Cardinality({d \in D :
                         DerivedRow(acc.parent_components_df, acc.accessories_df, d) = x})

\* a first run over an acyclic table returned rows of two rounds, with a
\* quantity other than 1 carried along
C7_Witness ==
    /\ acc.pc = "returned" /\ acc.run = 1
    /\ Acyclic(acc.accessories_df)
    /\ Len(acc.full_accessory_list) >= 2
    /\ \E i \in DOMAIN acc.result : acc.result[i].Quantity > 1

\* C8 as stated: running the expansion on the rows it returned yields an
\* empty result.
C8_RerunEmpty ==
    (acc.pc = "returned" /\ acc.run = 2) => acc.result = <<>>

\* C8 amended: running the expansion on the rows it returned yields no row
\* that is not among them, and yields the empty result exactly when none of
\* them is the parent of a rule.
C8_RerunClosed ==
    (acc.pc = "returned" /\ acc.run = 2) =>
        /\ Range(acc.result) \subseteq Range(acc.first)
        /\ acc.result = <<>> <=>
              \A i \in DOMAIN acc.first, j \in DOMAIN acc.accessories_df :
                  strip(acc.first[i].PartNumber)
                     # strip(acc.accessories_df[j].ParentPartNumber)

\* a second run returned rows
C8_Witness ==
    acc.pc = "returned" /\ acc.run = 2 /\ acc.result # <<>>

\* the options shown for a server panel are one for the modular build and
\* one for every standalone unit, in that order, valid or not
CliOptionsRetained ==
    (cli.pc # "off" /\ cli.options # <<>>)
    => /\ Len(cli.options) = 1 + Len(asb_servers)
       /\ cli.options[1].type = "AS-P"
       /\ \A k \in DOMAIN asb_servers : cli.options[k + 1].name = asb_servers[k].Name

\* the script shows its valid options in ascending order of cost; it does
\* not: the list is never sorted
CliValidOptionsAscending ==
    cli.pc # "off"
    => \A i, j \in DOMAIN cli.options :
          (i < j /\ cli.options[i].valid /\ cli.options[j].valid)
             => cli.options[i].cost <= cli.options[j].cost

\* every panel of the file has its row in the matrix the script writes
CliRowPerPanel ==
    (cli.pc = "done" /\ cli.matrix # <<>>)
    => {cli.matrix[1].records[i].PanelName : i \in DOMAIN cli.matrix[1].records}
          = Range(PanelNames(cli.panels))

(***************************************************************************)
(* C3, C4, C5, C6, C9, C10: the requests.                                  *)
(***************************************************************************)
Sizing(u) == resp[u].kind = "calculate_options"

Report(u) == resp[u].kind = "generate_reports"

\* the panels a handled report request names
BatchPanels(data) ==
    {data.panel_choices[i].panel : i \in DOMAIN data.panel_choices}
       \cup Range(data.standard_panels)

\* the panel names of the demand set in the slot
Loaded(config) == IF config = 0 THEN {} ELSE Range(PanelNames(Frame(config)))

\* the solver ran to an optimum for every panel of the request
AllSolved(solver) == \A k \in DOMAIN solver : solver[k] = "solved"

\* C3: every sizing or report request is answered from the demand set its
\* own user uploaded: the response is one the handler gives on that user's
\* last upload, whatever other users uploaded in between.
C3_OwnDemandSet ==
    \A u \in Users :
        /\ Sizing(u) => resp[u].response
                           \in calculate_options(uploaded[u], resp[u].data, resp[u].solver)
        /\ Report(u) => resp[u].response
                           \in generate_reports(uploaded[u], resp[u].data, resp[u].solver)

\* the panels of the matrix of a report response
MatrixPanels(response) ==
    {response.body.matrix.records[i].PanelName : i \in DOMAIN response.body.matrix.records}

\* C4: a report over panels of the loaded demand set completes, with the
\* solver running well, and its matrix has exactly one row for every panel
\* of the batch, server panels without a chosen option included.
C4_ReportRowPerPanel ==
    \A u \in Users :
        (Report(u) /\ resp[u].config # 0
                   /\ BatchPanels(resp[u].data) \subseteq Loaded(resp[u].config)
                   /\ AllSolved(resp[u].solver))
        => /\ resp[u].response.status = 200
           /\ MatrixPanels(resp[u].response) = BatchPanels(resp[u].data)
           /\ Len(resp[u].response.body.matrix.records)
                 = Cardinality(BatchPanels(resp[u].data))

\* the row of a panel in a matrix is the sentinel's: quantity 0 under
\* 'No Solution Found' and nothing else
SentinelRow(matrix, panel_name) ==
    \E i \in DOMAIN matrix.records :
        /\ matrix.records[i].PanelName = panel_name
        /\ NoSolutionFound \in DOMAIN matrix.records[i].cells
        /\ matrix.records[i].SUM = 0

\* every standard panel of a completed report has its row, the sentinel's
\* where the sizing gave no solution
StandardPanelsHaveRows ==
    \A u \in Users :
        (Report(u) /\ resp[u].response.status = 200)
        => \A k \in DOMAIN resp[u].data.standard_panels :
              /\ resp[u].data.standard_panels[k] \in MatrixPanels(resp[u].response)
              /\ resp[u].solver[k] = "not_solved"
                    => SentinelRow(resp[u].response.body.matrix,
                                   resp[u].data.standard_panels[k])

\* C5: a report over standard panels of the loaded demand set completes
\* however the solver runs, and a panel whose solver run failed or gave no
\* usable result has the sentinel's row.
C5_SolverFailureContained ==
    \A u \in Users :
        (Report(u) /\ resp[u].config # 0 /\ resp[u].data.panel_choices = <<>>
                   /\ Range(resp[u].data.standard_panels) \subseteq Loaded(resp[u].config))
        => /\ resp[u].response.status = 200
           /\ \A k \in DOMAIN resp[u].solver :
                 resp[u].solver[k] # "solved"
                    => SentinelRow(resp[u].response.body.matrix,
                                   resp[u].data.standard_panels[k])

\* a handled request names a panel that the demand set in the slot lacks
NamesUnknownPanel(r) ==
    /\ r.config # 0
    /\ \/ r.kind = "calculate_options" /\ r.data.panel_name \notin Loaded(r.config)
       \/ r.kind = "generate_reports" /\ AllSolved(r.solver)
                                      /\ ~(BatchPanels(r.data) \subseteq Loaded(r.config))

DataError(response) ==
    response.status = 500 /\ response.error = "IndexError" /\ response.body = <<>>

\* C6: a sizing or report request that names a panel absent from the loaded
\* demand set ends in an error response without any result.
C6_UnknownPanelDataError ==
    \A u \in Users : NamesUnknownPanel(resp[u]) => DataError(resp[u].response)

\* a panel the handler looks up in the demand set is absent from it
LooksUpUnknownPanel(r) ==
    /\ r.config # 0
    /\ \/ r.kind = "calculate_options" /\ r.data.panel_name \notin Loaded(r.config)
       \/ r.kind = "generate_reports" /\ AllSolved(r.solver)
             /\ ~(Range(r.data.standard_panels) \subseteq Loaded(r.config))

\* where the handler looks the panel up, the request ends in the error
UnknownLookupDataError ==
    \A u \in Users : LooksUpUnknownPanel(resp[u]) => DataError(resp[u].response)

\* a sizing or a report changes neither the slot nor another user's response
RequestsLeaveOthersAlone ==
    [][\A u \in Users :
          (inflight'[u] # inflight[u]
             /\ resp'[u].kind \in {"calculate_options", "generate_reports"})
          => /\ PANELS_DF' = PANELS_DF
             /\ \A v \in Users \ {u} : resp'[v] = resp[v]]_vars

\* the requirements of a handled sizing request
RequirementsOf(r) == RowsWhere(Frame(r.config), "PanelName", r.data.panel_name)[1]

SpareOf(r) == Get(r.data, "spare_points_percentage", DEFAULT_SPARE_POINTS_PERCENTAGE)

\* a sizing request that reached the evaluation of the options
Evaluated(r) ==
    r.kind = "calculate_options" /\ r.data.panel_name \in Loaded(r.config)
                                 /\ r.solver # "crash"

\* C9: the response to a sizing request lists one option for the modular
\* build and one for every standalone unit, valid or not, and its valid
\* options are in ascending order of cost.
C9_AllOptionsListed ==
    \A u \in Users :
        (Evaluated(resp[u]) /\ resp[u].response.status = 200)
        => LET options == resp[u].response.body
           IN  /\ Len(options) = 1 + Len(asb_servers)
               /\ \E i \in DOMAIN options : options[i].type = "AS-P"
               /\ \A k \in DOMAIN asb_servers :
                     \E i \in DOMAIN options : options[i].name = asb_servers[k].Name
               /\ \A i, j \in DOMAIN options :
                     (i < j /\ options[i].valid /\ options[j].valid)
                        => options[i].cost <= options[j].cost

\* the options of a response are valid ones only, in ascending order of cost
ValidOptionsAscending ==
    \A u \in Users :
        (Evaluated(resp[u]) /\ resp[u].response.status = 200)
        => LET options == resp[u].response.body
           IN  \A i, j \in DOMAIN options :
                  /\ options[i].valid
                  /\ i < j => options[i].cost <= options[j].cost

\* the three conditions on a standalone unit
ThreeConditions(requirements, asb, s) ==
    LET reqInputs  == CeilSpare(requirements.DI + requirements.AI, s)
        reqOutputs == CeilSpare(requirements.DO + requirements.AO, s)
    IN  /\ reqInputs + reqOutputs
              <= asb.DI + asb.AI + asb.UI + asb.DO + asb.AO + asb.UO + asb.UIO
        /\ reqInputs <= asb.DI + asb.AI + asb.UI + asb.UIO
        /\ reqOutputs <= asb.DO + asb.AO + asb.UO + asb.UIO

\* the accessory cost of one unit of a catalog entry
UnitAccessoryCost(asb) ==
    LET rows == get_accessories_recursively(<<Row(asb.Name, asb.PartNumber, 1, asb.Cost)>>,
                                            accessories).result
    IN  SumSeq([i \in DOMAIN rows |-> rows[i].Quantity * rows[i].Cost])

\* the options of a response are right about the unit asb
StandaloneAsClaimed(r, asb) ==
    LET options == SelectSeq(r.response.body, LAMBDA o : o.name = asb.Name /\ o.valid)
    IN  IF ThreeConditions(RequirementsOf(r), asb, SpareOf(r))
        THEN /\ Len(options) = 1
             /\ options[1].components = (asb.Name :> 1)
             /\ options[1].cost = asb.Cost + UnitAccessoryCost(asb)
        ELSE options = <<>>

\* C10: a sizing request is answered with the options, where a standalone
\* unit is valid exactly when the three conditions hold, and a valid unit's
\* option has components {unit: 1} and costs the unit plus its accessories.
C10_StandaloneOption ==
    \A u \in Users :
        (Evaluated(resp[u]) /\ resp[u].solver = "solved")
        => /\ resp[u].response.status = 200
           /\ \A k \in DOMAIN asb_servers : StandaloneAsClaimed(resp[u], asb_servers[k])

\* where the options are returned, they are right about every unit
ReturnedStandaloneOptions ==
    \A u \in Users :
        (Evaluated(resp[u]) /\ resp[u].response.status = 200)
        => \A k \in DOMAIN asb_servers : StandaloneAsClaimed(resp[u], asb_servers[k])

(***************************************************************************)
(* C11: the cost of the modular option.                                    *)
(***************************************************************************)
\* quantity times unit cost, summed over the rows of a frame
TotalOf(frame) == SumSeq([i \in DOMAIN frame |-> frame[i].Quantity * frame[i].Cost])

\* what a BOQ totals for the parts list of a modular option: the server
\* once, the modules at their quantities, and the expansion of that list
BoqTotalOf(modules) ==
    LET parts == PrimaryComponents(asp_servers[1], modules)
    IN  TotalOf(parts) + TotalOf(get_accessories_recursively(parts, accessories).result)

\* the modular options of a response
ModularOptions(r) == SelectSeq(r.response.body, LAMBDA o : o.type = "AS-P")

\* C11: the modular option of a sizing response costs the primary server,
\* the chosen modules at their quantities and every expanded accessory row at
\* its unit cost times its quantity, which is what the BOQ totals for the
\* same parts list.
C11_ModularCost ==
    \A u \in Users :
        (Evaluated(resp[u]) /\ resp[u].response.status = 200)
        => \A i \in DOMAIN ModularOptions(resp[u]) :
              ModularOptions(resp[u])[i].cost
                 = BoqTotalOf(ModularOptions(resp[u])[i].components)

\* the modular option costs what the BOQ totals where every chosen module
\* has quantity 1, and never more than that
ModularCostAtMostBoqTotal ==
    \A u \in Users :
        (Evaluated(resp[u]) /\ resp[u].response.status = 200)
        => \A i \in DOMAIN ModularOptions(resp[u]) :
              LET o == ModularOptions(resp[u])[i]
              IN  /\ o.cost <= BoqTotalOf(o.components)
                  /\ (\A n \in DOMAIN o.components : o.components[n] = 1)
                        => o.cost = BoqTotalOf(o.components)

(***************************************************************************)
(* C12, C13: the BOQ of a report.                                          *)
(***************************************************************************)
\* a report response that carries a matrix and a BOQ
Reported(u) ==
    Report(u) /\ resp[u].response.status = 200
              /\ resp[u].response.body.matrix.records # <<>>

\* the components chosen in the panels' solutions: the matrix columns that
\* are components
ChosenComponents(matrix) ==
    Range(matrix.columns) \ {"PanelName", "SUM", NoSolutionFound}

\* the quantity of a component over all panels
ChosenQuantity(matrix, c) ==
    SumSeq([i \in DOMAIN matrix.records |-> matrix.records[i].cells[c]])

\* the lines of a BOQ but the trailing summary line
Lines(boq) == SubSeq(boq, 1, Len(boq) - 1)

LinesNamed(boq, name) == SelectSeq(Lines(boq), LAMBDA l : l.ControllerName = name)

InCatalog(c) == RowsWhere(all_components, "Name", c) # <<>>

\* the aggregated parts list of a matrix: every chosen component of the
\* catalog with its quantity over all panels
AggregatedList(matrix) ==
    LET names == Sorted({c \in ChosenComponents(matrix) : InCatalog(c)})
    IN  [i \in DOMAIN names |->
            Row(names[i], Info(all_components, names[i]).PartNumber,
                ChosenQuantity(matrix, names[i]), Info(all_components, names[i]).Cost)]

\* the quantity the rows of a frame give a line's name, part number and cost
QuantityIn(frame, l) ==
    LET rows == SelectSeq(frame, LAMBDA x : x.Name = l.ControllerName
                                            /\ x.PartNumber = l.PartNumber
                                            /\ x.Cost = l.Cost)
    IN  SumSeq([i \in DOMAIN rows |-> rows[i].Quantity])

\* the lines of a BOQ are those of the chosen components of the matrix and
\* of the accessory expansion of their aggregated list
BoqAsAggregated(matrix, boq) ==
    LET parts    == AggregatedList(matrix)
        expected == parts \o get_accessories_recursively(parts, accessories).result
    IN  /\ \A c \in ChosenComponents(matrix) :
              /\ Len(LinesNamed(boq, c)) = 1
              /\ LinesNamed(boq, c)[1].Quantity >= ChosenQuantity(matrix, c)
        /\ \A i \in DOMAIN Lines(boq) :
              Lines(boq)[i].Quantity = QuantityIn(expected, Lines(boq)[i])
        /\ \A i \in DOMAIN expected :
              LinesNamed(boq, expected[i].Name) # <<>>
        /\ LinesNamed(boq, NoSolutionFound) = <<>>

\* C12: the BOQ of a report has one line for every component chosen in a
\* panel's solution, with the sum of its quantities over the panels and the
\* catalog's part number and cost, and the lines of the accessory expansion
\* of that aggregated list; the sentinel has no line and no chosen component
\* is left out or counted twice.
C12_BoqComplete ==
    \A u \in Users :
        Reported(u) => BoqAsAggregated(resp[u].response.body.matrix,
                                       resp[u].response.body.boq)

\* where every chosen component is in the catalog, the BOQ is as aggregated
BoqOfCatalogComponents ==
    \A u \in Users :
        (Reported(u)
           /\ ChosenComponents(resp[u].response.body.matrix) # {}
           /\ \A c \in ChosenComponents(resp[u].response.body.matrix) : InCatalog(c))
        => /\ resp[u].response.body.boq # <<>>
           /\ BoqAsAggregated(resp[u].response.body.matrix, resp[u].response.body.boq)

BoqTotalsHold(boq) ==
    /\ boq[Len(boq)].ControllerName = "Grand Total"
    /\ \A i \in DOMAIN Lines(boq) :
          /\ Lines(boq)[i].ControllerName # "Grand Total"
          /\ Lines(boq)[i].TotalCost = Lines(boq)[i].Quantity * Lines(boq)[i].Cost
    /\ boq[Len(boq)].TotalCost =
          SumSeq([i \in DOMAIN Lines(boq) |-> Lines(boq)[i].TotalCost])

EmptyBoqOnlyWithoutComponents ==
    \A u \in Users :
        (Reported(u) /\ resp[u].response.body.boq = <<>>)
        => ChosenComponents(resp[u].response.body.matrix) = {}

\* the BOQ the script writes has the same totals
CliBoqTotals ==
    (cli.pc = "done" /\ cli.boq # <<>>) => BoqTotalsHold(cli.boq[1])

(***************************************************************************)
(* C14: the matrix of a report.                                            *)
(***************************************************************************)
\* the columns between the first and the last
ComponentColumns(matrix) == SubSeq(matrix.columns, 2, Len(matrix.columns) - 1)

ColumnsInOrder(matrix) ==
    /\ matrix.columns[1] = "PanelName"
    /\ matrix.columns[Len(matrix.columns)] = "SUM"
    /\ \A i, j \in DOMAIN ComponentColumns(matrix) :
          i < j => StrLess(ComponentColumns(matrix)[i], ComponentColumns(matrix)[j])

SumOfCells(record) ==
    LET names == Sorted(DOMAIN record.cells)
    IN  SumSeq([i \in DOMAIN names |-> record.cells[names[i]]])

\* the quantity a solution gives a component, 0 where it has none
QuantityOf(components, c) == IF c \in DOMAIN components THEN components[c] ELSE 0

\* the panels of the request whose solution the request itself gives
ChosenPanels(data) ==
    SelectSeq(data.panel_choices,
              LAMBDA pc : ~pc.choice.null /\ DOMAIN pc.choice.components # {})

\* the row of a chosen panel has the quantities of its solution and no other
RowAsChosen(matrix, pc) ==
    \E i \in DOMAIN matrix.records :
        /\ matrix.records[i].PanelName = pc.panel
        /\ DOMAIN pc.choice.components \subseteq DOMAIN matrix.records[i].cells
        /\ \A c \in DOMAIN matrix.records[i].cells :
              matrix.records[i].cells[c] = QuantityOf(pc.choice.components, c)

MatrixAsClaimed(data, matrix) ==
    /\ ColumnsInOrder(matrix)
    /\ \A i \in DOMAIN matrix.records :
          /\ DOMAIN matrix.records[i].cells = Range(ComponentColumns(matrix))
          /\ matrix.records[i].SUM = SumOfCells(matrix.records[i])
    /\ \A k \in DOMAIN ChosenPanels(data) : RowAsChosen(matrix, ChosenPanels(data)[k])

\* C14: in the matrix of a report, the cell of a panel's row for a component
\* is the quantity of the component in the panel's solution, 0 where it has
\* none; the SUM cell of a row is the sum of the row's component cells; the
\* columns are the panel name, the component names in lexical order, SUM:
\* whatever the names of the components in the solutions.
C14_Matrix ==
    \A u \in Users :
        Reported(u) => MatrixAsClaimed(resp[u].data, resp[u].response.body.matrix)

\* the names a matrix cannot carry as components
ReservedNames == {"SUM", "PanelName"}

NamesChosen(data) ==
    UNION {DOMAIN ChosenPanels(data)[k].choice.components : k \in DOMAIN ChosenPanels(data)}

\* the matrix is as claimed where no chosen component has a reserved name
MatrixOfOtherNames ==
    \A u \in Users :
        (Reported(u) /\ NamesChosen(resp[u].data) \cap ReservedNames = {})
        => MatrixAsClaimed(resp[u].data, resp[u].response.body.matrix)

\* a component named like the index column: the report fails
ComponentNamedPanelName ==
    \A u \in Users :
        (Report(u) /\ resp[u].config # 0 /\ resp[u].response.status # 0
           /\ "PanelName" \in NamesChosen(resp[u].data))
        => resp[u].response.status = 500

(***************************************************************************)
(* C15: the sizing against the spare percentage, and at zero demand.       *)
(***************************************************************************)
\* the call drawn has been made, with a solver that solved the program
Sized == fin.pc # "call" /\ fin.solver = "solved"

\* the results of the same call with another spare percentage
AtSpare(s) ==
    find_optimal_combination(fin.variant, fin.req, FindCatalogs[fin.df], s, "solved")

\* a solution at the spare of the call means a solution at every smaller
\* spare, of no higher cost
MonotoneInSpare ==
    fin.result.outcome = "ok"
    => \A s1 \in {s \in Spares : s <= fin.spare} :
          \A r1 \in AtSpare(s1) :
              r1.outcome = "ok" /\ r1.total_cost <= fin.result.total_cost

ZeroDemand == Demand(0, 0, 0, 0)

\* the empty component map with cost 0
EmptyAtNoCost ==
    /\ fin.pc = "returned"
    /\ fin.result.outcome = "ok"
    /\ DOMAIN fin.result.solution = {}
    /\ fin.result.total_cost = 0

\* C15: for one demand and catalog and spare percentages s1 <= s2, a solution
\* found at s2 means one is found at s1, at a minimal cost not above that at
\* s2; with zero demand the result is the empty component map with cost 0,
\* whatever the (non-empty) catalog.
C15_SpareMonotoneZeroEmpty ==
    Sized => /\ MonotoneInSpare
             /\ fin.req = ZeroDemand => EmptyAtNoCost

\* both hold on the catalogs whose components get distinct row labels
SpareMonotoneDistinctLabels ==
    (Sized /\ ~LabelsOverlap(fin.variant, FindCatalogs[fin.df]))
    => /\ MonotoneInSpare
       /\ fin.req = ZeroDemand => EmptyAtNoCost

\* the cost does rise with the spare for some demand
SpareNeverRaisesCost ==
    (Sized /\ fin.result.outcome = "ok")
    => \A s1 \in {s \in Spares : s <= fin.spare} :
          \A r1 \in AtSpare(s1) : r1.total_cost >= fin.result.total_cost

(***************************************************************************)
(* C16: the standalone test against the rows of the formulator.            *)
(***************************************************************************)
\* the valid standalone options of a sizing response
StandaloneOptions(r) == SelectSeq(r.response.body, LAMBDA o : o.type = "AS-B" /\ o.valid)

\* the catalog row of a standalone unit
Unit(name) == RowsWhere(asb_servers, "Name", name)[1]

\* one unit of asb satisfies the rows of the program for the panel
OneUnitCarries(requirements, asb, spare) ==
    IsFeasible(<<asb>>, <<1>>, Required(requirements, spare))

\* the sizing of the panel on the catalog of the one unit finds a solution
\* of at most that unit
SizedWithOneUnit(requirements, asb, spare) ==
    \A r \in find_optimal_combination("app", requirements, <<asb>>, spare, "solved") :
        /\ r.outcome = "ok"
        /\ \A n \in DOMAIN r.solution : r.solution[n] <= 1

\* C16: every standalone unit a sizing response lists as valid carries the
\* panel under the rows of the formulator: one unit of it satisfies the four
\* requirement rows for the required points of each type, with its UI, UO
\* and UIO points allocated within their capacity; the sizing run on the
\* catalog of that unit alone needs no more than the one unit.
C16_ValidStandaloneCarries ==
    \A u \in Users :
        (Evaluated(resp[u]) /\ resp[u].response.status = 200)
        => \A i \in DOMAIN StandaloneOptions(resp[u]) :
              LET asb == Unit(StandaloneOptions(resp[u])[i].name)
              IN  /\ OneUnitCarries(RequirementsOf(resp[u]), asb, SpareOf(resp[u]))
                  /\ SizedWithOneUnit(RequirementsOf(resp[u]), asb, SpareOf(resp[u]))

\* the other direction holds: a unit that carries the panel under the rows
\* of the formulator passes the standalone test
CarryingUnitFits ==
    \A u \in Users :
        Evaluated(resp[u])
        => \A k \in DOMAIN asb_servers :
              OneUnitCarries(RequirementsOf(resp[u]), asb_servers[k], SpareOf(resp[u]))
              => StandaloneFits(RequirementsOf(resp[u]), asb_servers[k], SpareOf(resp[u]))

====
